---- MODULE Spec2Model ----
(***************************************************************************)
(* Model of extract_mgo (src/extract_mgo/main.go): the schema extractor    *)
(* that samples every collection of a MongoDB database, walks the decoded  *)
(* documents and writes the inferred (field path, type) lists.             *)
(*                                                                         *)
(* Strings that the program concatenates and compares (field paths) are    *)
(* sequences of byte values, so that prefix + "." + name, name + "[]" and  *)
(* strings.Compare are computed as the code computes them.  Decoded values *)
(* are records [kind, fields, elems]: kind is the Go dynamic type the type *)
(* switch of getSchema dispatches on.                                      *)
(***************************************************************************)
EXTENDS Integers, Sequences, FiniteSets, TLC

VARIABLES pc, format, dbName, session, collectionNames, ci,
          fieldSet, results, di, colSchema, dbSchemas, output, exit

vars == <<pc, format, dbName, session, collectionNames, ci,
          fieldSet, results, di, colSchema, dbSchemas, output, exit>>

(***************************************************************************)
(* Constants of the program and bounds of the model.                       *)
(***************************************************************************)
MaxTryRecords == 100

\* documents per sample drawn by the model (the program allows MaxTryRecords)
MaxDocs == 2
\* elements a long array holds beyond the first MaxTryRecords
ExtraElems == 1

CSVFormat == "csv"
JSONFormat == "json"

(***************************************************************************)
(* Decoded BSON values.                                                    *)
(***************************************************************************)
IntegerKinds == {"int", "int8", "int16", "int32", "int64",
                 "uint", "uint8", "uint16", "uint32", "uint64"}
FloatKinds == {"float32", "float64"}
BinaryKinds == {"bson.Binary", "[]uint8"}
ScalarKinds == IntegerKinds \cup FloatKinds \cup BinaryKinds
                 \cup {"string", "bool", "time.Time", "bson.ObjectId"}

Scalar(k) == [kind |-> k, fields |-> <<>>, elems |-> <<>>]
Nil == Scalar("nil")
DocV(fs) == [kind |-> "bson.D", fields |-> fs, elems |-> <<>>]
ArrV(es) == [kind |-> "[]interface{}", fields |-> <<>>, elems |-> es]
DocElem(n, v) == [Name |-> n, Value |-> v]

\* "." and "[]" as byte strings
Dot == <<46>>
Brackets == <<91, 93>>

(***************************************************************************)
(* docSchema: sort.Interface                                               *)
(***************************************************************************)
RECURSIVE Compare(_, _)
\* strings.Compare: -1, 0 or +1 by byte-wise lexical order
Compare(a, b) ==
  IF a = <<>> /\ b = <<>> THEN 0
  ELSE IF a = <<>> THEN -1
  ELSE IF b = <<>> THEN 1
  ELSE IF Head(a) < Head(b) THEN -1
  ELSE IF Head(a) > Head(b) THEN 1
  ELSE Compare(Tail(a), Tail(b))

Less(schema, i, j) == Compare(schema[i].Name, schema[j].Name) < 0

\* sort.Sort(data): data rearranged into the order Less defines (insertion of
\* x into the already sorted t, after every element that x is not Less than)
SortInsert(t, x) ==
  LET s == t \o <<x>>
      n == Len(s)
      k == Cardinality({i \in 1..Len(t) : ~Less(s, n, i)})
  IN SubSeq(t, 1, k) \o <<x>> \o SubSeq(t, k + 1, Len(t))

RECURSIVE Sort(_)
Sort(data) ==
  IF Len(data) <= 1 THEN data
  ELSE SortInsert(Sort(SubSeq(data, 1, Len(data) - 1)), data[Len(data)])

(***************************************************************************)
(* The walker.  A walk state st is [schema, fieldSet]: the *docSchema the  *)
(* functions append to and the package variable fieldSet.                  *)
(***************************************************************************)
addIfNotExists(st, field) ==
  IF field.Name \notin st.fieldSet
  THEN [schema |-> Append(st.schema, field),
        fieldSet |-> st.fieldSet \cup {field.Name}]
  ELSE st

\* the cases of the type switch whose body is empty: Go does not fall
\* through, so a value of such a type leaves the switch with nothing done
EmptyCaseKinds == {"int", "int8", "int16", "int32", "int64",
                   "uint", "uint8", "uint16", "uint32",
                   "float32", "bson.Binary"}

\* the tag set by the non-empty scalar cases, UNKNOWN in the default case
caseType(kind) ==
  CASE kind = "uint64" -> "INTEGER"
    [] kind = "float64" -> "DECIMAL"
    [] kind = "string" -> "STRING"
    [] kind = "bool" -> "BOOL"
    [] kind = "time.Time" -> "TIME"
    [] kind = "bson.ObjectId" -> "OBJECTID"
    [] kind = "[]uint8" -> "BINARY"
    [] OTHER -> "UNKNOWN"

\* slip: the field's own name, the prefix forgotten
fieldName_local(prefix, name) == name

\* the name getStructureSchema gives a field
fieldName(prefix, name) ==
  IF prefix = <<>> THEN name ELSE prefix \o Dot \o name

\* slip: the elements named by an index
elemName_indexed(name) == name \o <<91, 48, 93>>

\* the name getSchema gives the elements of the array at name
elemName(name) == name \o Brackets

\* slip: the bound taken inclusive
inspects_inclusive(i) == i <= MaxTryRecords

\* the loop condition on the index of an array element
inspects(i) == i < MaxTryRecords

\* slip: the nil check of getSchema left out
objectIsNil_never(object) == FALSE

\* if object == nil { return }
objectIsNil(object) == object.kind = "nil"

\* if v.Value == nil { continue }
valueIsNil(v) == v.Value.kind = "nil"

RECURSIVE getSchema(_, _, _)
RECURSIVE getStructureSchema(_, _, _)
RECURSIVE rangeElems(_, _, _, _, _)

getSchema(prefix, object, st) ==
  IF objectIsNil(object) THEN st
  ELSE LET field == [Name |-> prefix, Type |-> ""]
       IN CASE object.kind \in EmptyCaseKinds -> st
            [] object.kind = "bson.D" ->
                 getStructureSchema(field.Name, object.fields, st)
            [] object.kind = "[]interface{}" ->
                 rangeElems(field.Name, object.elems, 0, Len(object.elems),
                            addIfNotExists(st, [field EXCEPT !.Type = "ARRAY"]))
            [] OTHER ->
                 addIfNotExists(st, [field EXCEPT !.Type = caseType(object.kind)])

\* for i, v := range object.([]interface{}), over the indexes lo..hi-1 in
\* increasing order (the range is halved to keep the evaluation shallow).
\* The loop breaks at the first index its condition rejects; the condition
\* rejects every later index as well, so breaking is skipping the rest.
rangeElems(name, elems, lo, hi, st) ==
  IF lo >= hi THEN st
  ELSE IF hi - lo = 1
       THEN IF inspects(lo)
            THEN getSchema(elemName(name), elems[lo + 1], st)
            ELSE st
       ELSE LET mid == (lo + hi) \div 2
                first == rangeElems(name, elems, lo, mid, st)
            IN \* name is in first.fieldSet (the array's own entry was added
               \* before the loop); reading it computes the first half before
               \* the second starts
               IF name \in first.fieldSet /\ ~inspects(mid)
               THEN first
               ELSE rangeElems(name, elems, mid, hi, first)

getStructureSchema(prefix, object, st) ==
  IF object = <<>> THEN st
  ELSE LET v == Head(object)
       IN IF valueIsNil(v)
          THEN getStructureSchema(prefix, Tail(object), st)
          ELSE getStructureSchema(prefix, Tail(object),
                                  getSchema(fieldName(prefix, v.Name), v.Value, st))

\* slip: the set of the previous collection kept
makeFieldSet_kept(old) == old

\* fieldSet = make(map[string]struct{})
makeFieldSet(old) == {}

\* slip: the whole slice sorted
sortOne_whole(s) == Sort(s)

\* sort.Sort(colSchema[1:]) when len(colSchema) > 1
sortOne(s) ==
  IF Len(s) > 1 THEN <<s[1]>> \o Sort(SubSeq(s, 2, Len(s))) ELSE s

sortCollectionSchema(schema) == [c \in DOMAIN schema |-> sortOne(schema[c])]

(***************************************************************************)
(* What the environment can answer: the samples a collection's query can   *)
(* return.  Field names are "a" and "B".                                   *)
(***************************************************************************)
nameA == <<97>>
nameB == <<66>>

Rep(v, n) == [i \in 1..n |-> v]

ScalarDocs ==
  << <<DocElem(nameA, Scalar("int")), DocElem(nameB, Scalar("string"))>>,
     <<DocElem(nameA, Scalar("string"))>>,
     <<DocElem(nameA, Nil), DocElem(nameB, Scalar("uint64"))>> >>

NestedDocs ==
  << <<DocElem(nameA, DocV(<<DocElem(nameB, Scalar("string")),
                             DocElem(nameA, Nil)>>)),
       DocElem(nameB, Scalar("bson.Decimal128"))>> >>

ArrayDocs ==
  << <<DocElem(nameA, ArrV(<<Nil,
                             DocV(<<DocElem(nameB, Scalar("float64"))>>),
                             ArrV(<<Scalar("uint64")>>),
                             Scalar("string")>>))>> >>

LongArrayDocs ==
  << <<DocElem(nameA, ArrV(Rep(Nil, MaxTryRecords)
                           \o Rep(Scalar("string"), ExtraElems))),
       DocElem(nameB, ArrV(Rep(Nil, MaxTryRecords - 1)
                           \o <<Scalar("bool")>>
                           \o Rep(DocV(<<DocElem(nameA, Scalar("string"))>>),
                                  ExtraElems)))>> >>

\* the documents a collection can hold.  The state names a document by its
\* place in this list, which keeps the state small.
Documents == ScalarDocs \o NestedDocs \o ArrayDocs \o LongArrayDocs

Docs == DOMAIN Documents

Samples == UNION {[1..n -> Docs] : n \in 0..MaxDocs}

\* the names the collection lister can return, in the order it returns them
CollNames == <<"c1", "c2">>

\* the command line: which flags are set, the format given, whether the
\* connection string parses, and the database name in it
Contexts ==
  [database : BOOLEAN, output : BOOLEAN,
   format : {"", JSONFormat, CSVFormat, "xml"},
   urlOk : BOOLEAN, dbName : {"", "sampledb"}]

NoFile == [created |-> FALSE, data |-> <<>>]

(***************************************************************************)
(* The run: extractSchema and what it calls.                               *)
(***************************************************************************)
Init ==
  /\ pc = "start"
  /\ format = ""
  /\ dbName = ""
  /\ session = "none"
  /\ collectionNames = <<>>
  /\ ci = 0
  /\ fieldSet = {}
  /\ results = <<>>
  /\ di = 0
  /\ colSchema = <<>>
  /\ dbSchemas = [c \in {} |-> <<>>]
  /\ output = NoFile
  /\ exit = "running"

\* os.Exit reached through log.Fatal, log.Fatalf or ShowAppHelpAndExit: the
\* process ends at once and deferred calls do not run
osExit(how) ==
  /\ pc' = "exit"
  /\ exit' = how

\* the format extractSchema settles on
chosenFormat(given) ==
  LET f == IF given # "" THEN given ELSE JSONFormat
  IN IF f # JSONFormat /\ f # CSVFormat THEN JSONFormat ELSE f

\* extractSchema up to mgo.ParseURL
ParseArgs ==
  /\ pc = "start"
  /\ \E ctx \in Contexts :
       IF ~ctx.database /\ ~ctx.output /\ ctx.format = ""
       THEN osExit("help") /\ UNCHANGED <<format, dbName>>
       ELSE IF ~ctx.database
       THEN osExit("fatal") /\ UNCHANGED <<format, dbName>>
       ELSE IF ~ctx.output
       THEN osExit("fatal") /\ format' = chosenFormat(ctx.format)
            /\ UNCHANGED dbName
       ELSE IF ~ctx.urlOk
       THEN pc' = "exit" /\ exit' = "panic"
            /\ format' = chosenFormat(ctx.format) /\ UNCHANGED dbName
       ELSE /\ pc' = "dial"
            /\ format' = chosenFormat(ctx.format)
            /\ dbName' = ctx.dbName
            /\ UNCHANGED exit
  /\ UNCHANGED <<session, collectionNames, ci, fieldSet, results, di,
                 colSchema, dbSchemas, output>>

\* session, err := mgo.Dial(url); defer session.Close()
Dial ==
  /\ pc = "dial"
  /\ \E ok \in BOOLEAN :
       IF ok
       THEN session' = "open" /\ pc' = "checkDb" /\ UNCHANGED exit
       ELSE osExit("fatal") /\ UNCHANGED session
  /\ UNCHANGED <<format, dbName, collectionNames, ci, fieldSet, results, di,
                 colSchema, dbSchemas, output>>

\* if cmdInfo.dbName == "" { log.Fatalf(...) }
CheckDbName ==
  /\ pc = "checkDb"
  /\ IF dbName = ""
     THEN osExit("fatal")
     ELSE pc' = "list" /\ UNCHANGED exit
  /\ UNCHANGED <<format, dbName, session, collectionNames, ci, fieldSet,
                 results, di, colSchema, dbSchemas, output>>

\* getDbSchema: db.CollectionNames()
ListCollections ==
  /\ pc = "list"
  /\ \E fault \in BOOLEAN, n \in 0..Len(CollNames) :
       IF fault
       THEN osExit("fatal") /\ UNCHANGED <<collectionNames, ci>>
       ELSE /\ collectionNames' = SubSeq(CollNames, 1, n)
            /\ ci' = 0
            /\ pc' = "loop"
            /\ UNCHANGED exit
  /\ UNCHANGED <<format, dbName, session, fieldSet, results, di, colSchema,
                 dbSchemas, output>>

store(schemas, c, s) ==
  [x \in DOMAIN schemas \cup {c} |-> IF x = c THEN s ELSE schemas[x]]

\* genCollectionSchema up to the loop over the results: the set is made anew
\* and the query answers with documents, with ErrNotFound or with a fault
Find ==
  /\ pc = "loop"
  /\ ci < Len(collectionNames)
  /\ fieldSet' = makeFieldSet(fieldSet)
  /\ \E answer \in {"ok", "ErrNotFound", "fault"} :
       CASE answer = "ok" ->
              /\ \E rs \in Samples : results' = rs
              /\ colSchema' = <<>>
              /\ di' = 0
              /\ pc' = "walk"
              /\ UNCHANGED <<ci, dbSchemas, exit>>
         [] answer = "ErrNotFound" ->
              /\ dbSchemas' = store(dbSchemas, collectionNames[ci + 1], <<>>)
              /\ ci' = ci + 1
              /\ UNCHANGED <<results, colSchema, di, pc, exit>>
         [] answer = "fault" ->
              /\ osExit("fatal")
              /\ UNCHANGED <<results, colSchema, di, ci, dbSchemas>>
  /\ UNCHANGED <<format, dbName, session, collectionNames, output>>

\* one iteration of for _, result := range results
WalkResult ==
  /\ pc = "walk"
  /\ di < Len(results)
  /\ LET st == getStructureSchema(<<>>, Documents[results[di + 1]],
                                  [schema |-> colSchema, fieldSet |-> fieldSet])
     IN /\ colSchema' = st.schema
        /\ fieldSet' = st.fieldSet
  /\ di' = di + 1
  /\ UNCHANGED <<pc, format, dbName, session, collectionNames, ci, results,
                 dbSchemas, output, exit>>

\* return colSchema, stored by getDbSchema under the collection's name
ReturnColSchema ==
  /\ pc = "walk"
  /\ di = Len(results)
  /\ dbSchemas' = store(dbSchemas, collectionNames[ci + 1], colSchema)
  /\ ci' = ci + 1
  /\ results' = <<>>
  /\ di' = 0
  /\ colSchema' = <<>>
  /\ pc' = "loop"
  /\ UNCHANGED <<format, dbName, session, collectionNames, fieldSet, output,
                 exit>>

\* getDbSchema returns; sortCollectionSchema(schema)
SortSchemas ==
  /\ pc = "loop"
  /\ ci = Len(collectionNames)
  /\ dbSchemas' = sortCollectionSchema(dbSchemas)
  /\ pc' = "export"
  /\ UNCHANGED <<format, dbName, session, collectionNames, ci, fieldSet,
                 results, di, colSchema, output, exit>>

\* extractSchema returns err to main: the deferred session.Close() runs, and
\* main panics on an error
returnErr(err) ==
  /\ session' = "closed"
  /\ pc' = "exit"
  /\ exit' = IF err THEN "panic" ELSE "ok"

\* json.Marshal(schema): one member per collection, keys in sorted order (the
\* order of names, which the lister returns sorted)
jsonMarshal(schema, names) ==
  [i \in 1..Len(names) |-> [collection |-> names[i], fields |-> schema[names[i]]]]

\* exportJSON: ioutil.WriteFile creates or truncates the file and writes the
\* text; it can fail to open the file, or fail with part of the text written
ExportJSON ==
  /\ pc = "export"
  /\ format = JSONFormat
  /\ LET schemaJSON == jsonMarshal(dbSchemas, collectionNames)
     IN \E fault \in {"none", "open", "write"} :
          CASE fault = "none" ->
                 /\ output' = [created |-> TRUE, data |-> schemaJSON]
                 /\ returnErr(FALSE)
            [] fault = "open" ->
                 /\ UNCHANGED output
                 /\ returnErr(TRUE)
            [] fault = "write" ->
                 /\ \E k \in 0..(Len(schemaJSON) - 1) :
                      output' = [created |-> TRUE,
                                 data |-> SubSeq(schemaJSON, 1, k)]
                 /\ returnErr(TRUE)
  /\ UNCHANGED <<format, dbName, collectionNames, ci, fieldSet, results, di,
                 colSchema, dbSchemas>>

\* the rows written for one collection: none when it has no fields
csvRecords(c, fields) ==
  [i \in 1..Len(fields) |-> <<c, fields[i].Name, fields[i].Type>>]

RECURSIVE csvRows(_, _)
csvRows(schema, order) ==
  IF order = <<>> THEN <<>>
  ELSE csvRecords(Head(order), schema[Head(order)])
         \o csvRows(schema, Tail(order))

\* the orders in which range can visit the keys of a map
rangeOrders(keys) ==
  {o \in [1..Cardinality(keys) -> keys] :
     \A i, j \in DOMAIN o : i # j => o[i] # o[j]}

\* exportCSV: os.Create, then the rows through a buffered csv.Writer.  A row's
\* Write fails when the buffer cannot be written out (return err, the rows
\* written out before stay in the file); writer.Flush() does not report its
\* failure and nil is returned.
ExportCSV ==
  /\ pc = "export"
  /\ format = CSVFormat
  /\ \E fault \in {"none", "create", "write", "flush"},
        order \in rangeOrders(DOMAIN dbSchemas) :
       LET rows == csvRows(dbSchemas, order)
       IN CASE fault = "none" ->
                 /\ output' = [created |-> TRUE, data |-> rows]
                 /\ returnErr(FALSE)
            [] fault = "create" ->
                 /\ UNCHANGED output
                 /\ returnErr(TRUE)
            [] fault = "write" ->
                 /\ \E k \in 0..(Len(rows) - 1) :
                      output' = [created |-> TRUE, data |-> SubSeq(rows, 1, k)]
                 /\ returnErr(TRUE)
            [] fault = "flush" ->
                 /\ \E k \in 0..(Len(rows) - 1) :
                      output' = [created |-> TRUE, data |-> SubSeq(rows, 1, k)]
                 /\ returnErr(FALSE)
  /\ UNCHANGED <<format, dbName, collectionNames, ci, fieldSet, results, di,
                 colSchema, dbSchemas>>

Next ==
  \/ ParseArgs
  \/ Dial
  \/ CheckDbName
  \/ ListCollections
  \/ Find
  \/ WalkResult
  \/ ReturnColSchema
  \/ SortSchemas
  \/ ExportJSON
  \/ ExportCSV

Spec == Init /\ [][Next]_vars

(***************************************************************************)
(* What the claims speak of: the values a sample holds, by path.  This is  *)
(* the reading of a document the specification gives (its path rule and    *)
(* its classification rules), computed apart from the walker above.        *)
(***************************************************************************)
\* README: "For slice []interface{}, also handle at most 100 records."
InspectCap == 100

\* child path: localName at the root, else parent + "." + localName
childPath(parent, localName) ==
  IF parent = <<>> THEN localName ELSE parent \o <<46>> \o localName

\* element path: arrayFieldPath + "[]"
elementPath(arrayPath) == arrayPath \o <<91, 93>>

RECURSIVE obsValue(_, _, _)
RECURSIVE obsFields(_, _, _)
RECURSIVE obsElems(_, _, _, _)

\* the indexes lo..n of es at which a run of equal consecutive elements
\* starts: a repeated element adds no new (path, kind) and no new first
\* occurrence, so each run is read once
RunStarts(es, n) == {i \in 1..n : i = 1 \/ es[i] # es[i - 1]}

\* the values met at and below path, in document order, each with its path:
\* the value itself, the fields of an embedded document, the elements of an
\* array (all of them, or those at an index below InspectCap when capped)
obsValue(path, v, capped) ==
  <<[path |-> path, kind |-> v.kind]>>
    \o (CASE v.kind = "bson.D" -> obsFields(path, v.fields, capped)
          [] v.kind = "[]interface{}" ->
               LET n == IF capped /\ Len(v.elems) > InspectCap
                        THEN InspectCap ELSE Len(v.elems)
               IN obsElems(elementPath(path), v.elems,
                           RunStarts(v.elems, n), capped)
          [] OTHER -> <<>>)

obsFields(path, fs, capped) ==
  IF fs = <<>> THEN <<>>
  ELSE obsValue(childPath(path, Head(fs).Name), Head(fs).Value, capped)
         \o obsFields(path, Tail(fs), capped)

\* the elements of es at the indexes in at, in increasing order of index
obsElems(path, es, at, capped) ==
  IF at = {} THEN <<>>
  ELSE LET i == CHOOSE k \in at : \A m \in at : k <= m
       IN obsValue(path, es[i], capped) \o obsElems(path, es, at \ {i}, capped)

RECURSIVE obsDocs(_, _)
obsDocs(docs, capped) ==
  IF docs = <<>> THEN <<>>
  ELSE obsFields(<<>>, Head(docs), capped) \o obsDocs(Tail(docs), capped)

\* the documents of the current sample, and those walked so far
Sample == [i \in DOMAIN results |-> Documents[results[i]]]
Walked == SubSeq(Sample, 1, di)

\* the values the walk has been given so far: those within the first
\* InspectCap elements of every array (Seen), and all of them (AllValues)
Seen == obsDocs(Walked, TRUE)
AllValues == obsDocs(Walked, FALSE)
Range(q) == {q[i] : i \in DOMAIN q}

\* the tag the classification rules give a value of this kind
ruleType(kind) ==
  CASE kind \in IntegerKinds -> "INTEGER"
    [] kind \in FloatKinds -> "DECIMAL"
    [] kind = "string" -> "STRING"
    [] kind = "bool" -> "BOOL"
    [] kind = "time.Time" -> "TIME"
    [] kind = "bson.ObjectId" -> "OBJECTID"
    [] kind \in BinaryKinds -> "BINARY"
    [] kind = "[]interface{}" -> "ARRAY"
    [] OTHER -> "UNKNOWN"

\* a value that is classified: not null, not an embedded document
Classified(kind) == kind \notin {"nil", "bson.D"}

\* a classified value whose case in the type switch has a body
Recorded(kind) == Classified(kind) /\ kind \notin EmptyCaseKinds

\* the first value of seen at path that satisfies P
FirstAt(seen, path, P(_)) ==
  LET hits == {i \in DOMAIN seen : seen[i].path = path /\ P(seen[i].kind)}
  IN seen[CHOOSE i \in hits : \A j \in hits : i <= j]

Entries == {colSchema[i] : i \in DOMAIN colSchema}
EntriesAt(path) == {i \in DOMAIN colSchema : colSchema[i].Name = path}

IsPrefix(p, s) == Len(p) <= Len(s) /\ SubSeq(s, 1, Len(p)) = p

NoDuplicateNames(schema) ==
  \A i, j \in DOMAIN schema : i # j => schema[i].Name # schema[j].Name

(***************************************************************************)
(* C1.  For a sample whose fields are all non-null scalars, the schema     *)
(* built for the collection has exactly one entry per distinct field name, *)
(* typed by the classification rules from the value first seen for it.     *)
(***************************************************************************)
ScalarSample(docs) ==
  \A i \in DOMAIN docs : \A f \in DOMAIN docs[i] :
    docs[i][f].Value.kind \in ScalarKinds

C1_ScalarFieldsTypedByRules ==
  (pc = "walk" /\ di = Len(results) /\ ScalarSample(Sample)) =>
    LET seen == Seen
    IN /\ NoDuplicateNames(colSchema)
       /\ {e.Name : e \in Entries} = {o.path : o \in Range(seen)}
       /\ \A e \in Entries :
            e.Type = ruleType(FirstAt(seen, e.Name, Classified).kind)

(***************************************************************************)
(* C2.  While a collection is scanned no two entries have the same path,   *)
(* and an entry has the type of the value first seen at its path.          *)
(***************************************************************************)
C2_FirstSeenTypeKept ==
  pc = "walk" =>
    LET seen == Seen
    IN /\ NoDuplicateNames(colSchema)
       /\ \A e \in Entries :
            /\ \E o \in Range(seen) : o.path = e.Name /\ Classified(o.kind)
            /\ e.Type = ruleType(FirstAt(seen, e.Name, Classified).kind)

(***************************************************************************)
(* C3.  At the end of every run either the complete database schema has    *)
(* been written to the output or nothing has.                              *)
(***************************************************************************)
AllScanned ==
  /\ ci = Len(collectionNames)
  /\ DOMAIN dbSchemas = {collectionNames[i] : i \in DOMAIN collectionNames}

CompleteOutputs ==
  IF format = JSONFormat
  THEN {jsonMarshal(dbSchemas, collectionNames)}
  ELSE {csvRows(dbSchemas, o) : o \in rangeOrders(DOMAIN dbSchemas)}

C3_CompleteOrNothing ==
  pc = "exit" =>
    \/ output.data = <<>>
    \/ AllScanned /\ output.data \in CompleteOutputs

(***************************************************************************)
(* C8.  No run that opened the session ends with the session still open.   *)
(***************************************************************************)
C8_SessionClosedAtExit ==
  (pc = "exit" /\ session # "none") => session = "closed"

(***************************************************************************)
(* C4.  sortCollectionSchema leaves the first-discovered entry of every    *)
(* collection at position 0 and puts the entries at positions 1..n-1 in    *)
(* ascending byte-wise order of name; no entry is lost or added.           *)
(***************************************************************************)
SortedFrom(schema, first) ==
  \A i, j \in first..Len(schema) :
    i < j => Compare(schema[i].Name, schema[j].Name) < 0

C4_SortedExceptFirst ==
  [][(pc = "loop" /\ pc' = "export") =>
       /\ DOMAIN dbSchemas' = DOMAIN dbSchemas
       /\ \A c \in DOMAIN dbSchemas :
            /\ Len(dbSchemas'[c]) = Len(dbSchemas[c])
            /\ Range(dbSchemas'[c]) = Range(dbSchemas[c])
            /\ Len(dbSchemas[c]) > 0 => dbSchemas'[c][1] = dbSchemas[c][1]
            /\ SortedFrom(dbSchemas'[c], 2)]_vars

\* a schema handed to the serializer whose first entry is out of order
C4_Witness ==
  /\ pc = "export"
  /\ \E c \in DOMAIN dbSchemas :
       /\ Len(dbSchemas[c]) >= 3
       /\ Compare(dbSchemas[c][1].Name, dbSchemas[c][2].Name) > 0
       /\ SortedFrom(dbSchemas[c], 2)

(***************************************************************************)
(* C5.  Walking records no entry for an embedded document itself: every    *)
(* entry is at the path of a value that is not an embedded document (a     *)
(* leaf or an array), and the path is the dotted one.                      *)
(***************************************************************************)
C5_NoEntryForEmbeddedDocument ==
  pc = "walk" =>
    LET all == Range(AllValues)
    IN \A e \in Entries :
         \E o \in all : o.path = e.Name /\ Classified(o.kind)

\* an embedded document at "a" was walked: its field is entered as "a.B" and
\* there is no entry for "a"
C5_Witness ==
  /\ pc = "walk"
  /\ di = 1
  /\ Sample[1][1].Value.kind = "bson.D"
  /\ EntriesAt(Sample[1][1].Name) = {}
  /\ EntriesAt(Sample[1][1].Name \o <<46>> \o nameB) # {}

(***************************************************************************)
(* C6 as claimed.  Every array field met at path p has exactly one entry   *)
(* for p, and the entry is tagged ARRAY.                                   *)
(***************************************************************************)
ArrayPaths(seen) ==
  {o.path : o \in {x \in Range(seen) : x.kind = "[]interface{}"}}

C6_ArrayEntryTaggedArray ==
  pc = "walk" =>
    \A p \in ArrayPaths(Seen) :
      /\ Cardinality(EntriesAt(p)) = 1
      /\ \A i \in EntriesAt(p) : colSchema[i].Type = "ARRAY"

(***************************************************************************)
(* C6 as amended.  Every array field met at path p has exactly one entry   *)
(* for p, whatever the arrays' lengths and their number; the entry is      *)
(* tagged ARRAY exactly when the first value recorded at p was an array;   *)
(* and every entry at a bracketed path lies under p[] for an array met at  *)
(* some path p.                                                            *)
(***************************************************************************)
C6_ArrayEntryOnce ==
  pc = "walk" =>
    LET seen == Seen
        arrays == ArrayPaths(seen)
    IN /\ \A p \in arrays :
            /\ Cardinality(EntriesAt(p)) = 1
            /\ \A i \in EntriesAt(p) :
                 colSchema[i].Type = "ARRAY"
                   <=> FirstAt(seen, p, Recorded).kind = "[]interface{}"
       /\ \A e \in Entries :
            (\E k \in DOMAIN e.Name : e.Name[k] = 91) =>
               \E p \in arrays : IsPrefix(elementPath(p), e.Name)

\* two documents with an array at "a" were walked, one of them longer than
\* the cap: one ARRAY entry for "a", the elements' entry at "a[]"
C6_Witness ==
  /\ pc = "walk"
  /\ di = 2
  /\ \A i \in 1..2 : /\ Sample[i][1].Name = nameA
                     /\ Sample[i][1].Value.kind = "[]interface{}"
  /\ Len(Sample[1][1].Value.elems) # Len(Sample[2][1].Value.elems)
  /\ \E i \in EntriesAt(nameA) : colSchema[i].Type = "ARRAY"
  /\ EntriesAt(elementPath(nameA)) # {}

(***************************************************************************)
(* C7.  A null value contributes no entry: every entry is at a path where  *)
(* a non-null value of the entry's type was inspected, so a path where     *)
(* only nulls were inspected (a field, or the elements of an array) has no *)
(* entry; and a null at a path does not keep a recorded value at the same  *)
(* path, in another document or element, from getting its entry.           *)
(***************************************************************************)
C7_NullAddsNoEntry ==
  pc = "walk" =>
    LET seen == Range(Seen)
        paths == {o.path : o \in seen}
        nullOnly == {p \in paths : \A o \in seen : o.path = p => o.kind = "nil"}
        nullAt == {o.path : o \in {x \in seen : x.kind = "nil"}}
    IN /\ \A p \in nullOnly : EntriesAt(p) = {}
       /\ \A e \in Entries :
            \E o \in seen : /\ o.path = e.Name
                            /\ Classified(o.kind)
                            /\ e.Type = ruleType(o.kind)
       /\ \A o \in seen :
            (o.path \in nullAt /\ Recorded(o.kind)) => EntriesAt(o.path) # {}

\* "a" was null in the first document and a string in the second: it got
\* no entry from the first and its entry from the second
C7_Witness ==
  /\ pc = "walk"
  /\ di = 2
  /\ Sample[1][1] = DocElem(nameA, Nil)
  /\ Sample[2][1] = DocElem(nameA, Scalar("string"))
  /\ \E i \in EntriesAt(nameA) : i > 1 /\ colSchema[i].Type = "STRING"

(***************************************************************************)
(* C9.  The schema being built for a collection, and the membership set,   *)
(* are those the walk gives from an empty schema and an empty set on the   *)
(* collection's own documents, whatever was scanned before.                *)
(***************************************************************************)
RECURSIVE walkAlone(_)
walkAlone(docs) ==
  IF docs = <<>> THEN [schema |-> <<>>, fieldSet |-> {}]
  ELSE getStructureSchema(<<>>, docs[Len(docs)],
                          walkAlone(SubSeq(docs, 1, Len(docs) - 1)))

C9_OwnSampleOnly ==
  pc = "walk" =>
    [schema |-> colSchema, fieldSet |-> fieldSet] = walkAlone(Walked)

\* the second collection has been walked and holds a path that the first
\* collection's schema holds too
C9_Witness ==
  /\ pc = "walk"
  /\ ci = 1
  /\ di = Len(results)
  /\ \E e \in Entries : \E f \in Range(dbSchemas[collectionNames[1]]) :
       e.Name = f.Name

(***************************************************************************)
(* C10.  Of every array only the first InspectCap elements are inspected:  *)
(* an entry at an element path has the path and the type of a value among  *)
(* the first InspectCap elements of the arrays walked, so a path or a type *)
(* found only at a later index has no entry; and each recorded value among *)
(* the first InspectCap elements has its entry.                            *)
(***************************************************************************)
C10_OnlyFirstElementsInspected ==
  pc = "walk" =>
    LET seen == Range(Seen)
    IN /\ \A e \in Entries :
            (\E k \in DOMAIN e.Name : e.Name[k] = 91) =>
               \E o \in seen : /\ o.path = e.Name
                               /\ Classified(o.kind)
                               /\ e.Type = ruleType(o.kind)
       /\ \A o \in seen : Recorded(o.kind) => EntriesAt(o.path) # {}

\* arrays longer than the cap were walked: the type found only past the cap
\* (a string in "a") and the path found only past it ("B[].a") have no
\* entry, the value at the last inspected index of "B" has
C10_Witness ==
  /\ pc = "walk"
  /\ di = 1
  /\ \A f \in 1..2 : Len(Sample[1][f].Value.elems) > InspectCap
  /\ Sample[1][1].Value.elems[InspectCap + 1].kind = "string"
  /\ Sample[1][2].Value.elems[InspectCap].kind = "bool"
  /\ EntriesAt(elementPath(nameA)) = {}
  /\ \E i \in EntriesAt(elementPath(nameB)) : colSchema[i].Type = "BOOL"
  /\ EntriesAt(elementPath(nameB) \o <<46>> \o nameA) = {}

====
